---- MODULE Spec2Model ----
(***************************************************************************)
(* A model of the fake MDS Provider data generator of mds-provider:        *)
(* mds/fake/provider.py (ProviderDataGenerator), mds/fake/util.py and      *)
(* mds/fake/geometry.py.                                                   *)
(*                                                                         *)
(* Units.  Times are seconds counted from midnight of the service date.    *)
(* Battery levels are hundredths (1.0 is 100).  Places are cells of a      *)
(* line, CellSize metres wide; the boundary is a set of cells.  A Python   *)
(* dict is a TLA+ function from its keys, so that "key in dict", del and   *)
(* {**a, **b} are what they are in the source.  Device dicts are mutated   *)
(* in place by the source, so they live in a heap (objs) and the lists     *)
(* hold references to them.                                                *)
(*                                                                         *)
(* Random draws are existential choices over small sample sets.            *)
(***************************************************************************)
EXTENDS Integers, Sequences, FiniteSets, TLC

\* ------------------------------------------------------------------ bounds

\* The largest roster devices() is asked for.
MaxDevices == 2
\* The largest number of operating hours (hour_closed - hour_open + 1).
MaxHours == 3
\* How many events of each device the model remembers of day_status_changes.
Window == 3
\* The number of calls of service_day on one roster.
MaxDays == 1
\* Metres per cell of the line the places lie on.
CellSize == 4000
\* The redraws of point_within the model counts; further ones are not told apart.
MaxDraws == 2

\* ------------------------------------------------------- program constants

TD_HOUR == 3600
StartOffset == -7200
EndOffset == 7200
FullBattery == 100
LowBattery == 20
MAX_TRIES == 50

BATTERY == "battery_pct"
EVENT_LOC == "event_location"
EVENT_TIME == "event_time"
PROPULSION == "propulsion_type"

EVENT_TYPE_REASONS ==
    [available |-> {"service_start", "user_drop_off", "rebalance_drop_off",
                    "maintenance_drop_off"},
     reserved |-> {"user_pick_up"},
     unavailable |-> {"maintenance", "low_battery"},
     removed |-> {"service_end", "rebalance_pick_up", "maintenance_pick_up"}]

EVENT_TYPES == DOMAIN EVENT_TYPE_REASONS

AllReasons == UNION {EVENT_TYPE_REASONS[t] : t \in EVENT_TYPES}

\* ------------------------------------------------------------ sample sets

\* The offsets (seconds) at which the model samples random.randint and
\* random.uniform.
OffsetSamples == {1800}
\* The values (seconds) at which the model samples random.gammavariate(3, 4.5) * 60.
DurationSamples == {2400}
\* The values (hundredths) at which the model samples random.uniform(0, 0.05).
LeakSamples == {5}
\* The bearings: west and east along the line.
Bearings == {-1, 1}
\* The boundary polygon: the cells it contains.  Cell 2 lies inside the
\* bounding box and outside the polygon.
Boundary == {1, 3}
\* The values inactivity is called with, in hundredths.
InactivitySamples == {0, 50, 100}
\* The hour service_day is opened at.
HourOpenSamples == {7}
\* The speeds (metres/second) the generator is built with.
SpeedSamples == {15}
\* The speed (metres/second) of a generator built for fast devices.
FastSpeedSamples == {25}
\* The propulsion types devices() chooses from.
PropulsionSamples == {"human", "electric"}

\* ---------------------------------------------------------------- helpers

Min(S) == CHOOSE x \in S : \A y \in S : x <= y
Max(S) == CHOOSE x \in S : \A y \in S : x >= y

Range(s) == {s[i] : i \in DOMAIN s}

\* The integer square root, by bisection.
RECURSIVE SqrtIn(_, _, _)
SqrtIn(n, lo, hi) ==
    IF lo >= hi
    THEN lo
    ELSE LET mid == (lo + hi + 1) \div 2
         IN  IF mid * mid <= n THEN SqrtIn(n, mid, hi) ELSE SqrtIn(n, lo, mid - 1)

ISqrt(n) == IF n <= 0 THEN 0 ELSE SqrtIn(n, 0, IF n < 46340 THEN n ELSE 46340)

\* A mutant of RemoveAt: nothing is removed.
NothingRemoved(list, k) == list

\* del list[k]
RemoveAt(list, k) ==
    [j \in 1..(Len(list) - 1) |-> IF j < k THEN list[j] ELSE list[j + 1]]

\* {**a, **b}
Merge(a, b) ==
    [k \in (DOMAIN a) \cup (DOMAIN b) |-> IF k \in DOMAIN b THEN b[k] ELSE a[k]]

\* del d[key]
Del(d, key) == [k \in (DOMAIN d) \ {key} |-> d[k]]

\* d[key] = value, on a dict
Put(d, key, value) == Merge(d, [k \in {key} |-> value])

\* list.index(x): the first position holding a value equal to x.
Index(list, x) == Min({i \in DOMAIN list : list[i] = x})

\* random.sample(list, k): every ordering of every k positions.
Sample(list, k) ==
    {[j \in 1..k |-> list[p[j]]] :
        p \in {q \in [1..k -> DOMAIN list] :
                  \A a, b \in 1..k : a # b => q[a] # q[b]}}

\* random.randint(a, b)
RandInt(a, b) == {x \in OffsetSamples : a <= x /\ x <= b} \cup {a}

\* random.uniform(a, b): a + (b - a) * random()
Uniform(a, b) ==
    {x \in OffsetSamples : (a <= x /\ x <= b) \/ (b <= x /\ x <= a)} \cup {a}

\* ------------------------------------------------- mds/fake/util.py

\* An optional argument is a set: {} is None, {v} is the value v.
None == {}

\* random_date_from(date, min_td, max_td): the datetimes it can return.
random_date_from(date, min_td, max_td) ==
    LET pairs ==
            IF min_td = None /\ max_td = None
            THEN RandInt(-3600, 3600) \X RandInt(-3600, 3600)
            ELSE IF max_td = None
            THEN {<<lo, hi>> : lo \in min_td, hi \in RandInt(Min(min_td), 3600)}
            ELSE IF min_td = None
            THEN {<<lo, hi>> : lo \in RandInt(0, Max(max_td)), hi \in max_td}
            ELSE min_td \X max_td
    IN  {date + offset : offset \in UNION {Uniform(p[1], p[2]) : p \in pairs}}

\* --------------------------------------------------- mds/geometry.py

\* to_feature(point, properties=dict(timestamp=t))
to_feature(point, t) == [coordinates |-> point, timestamp |-> t]

extract_point(feature) == feature.coordinates

\* ---------------------------------------------- mds/fake/geometry.py

\* boundary.bounds, and the points compute() can draw.
BoundingBox(boundary) == Min(boundary)..Max(boundary)

\* A mutant of Contains: the point is within the bounds of the boundary.
WithinBounds(boundary, point) == point \in BoundingBox(boundary)

\* boundary.contains(point)
Contains(boundary, point) == point \in boundary

\* point_within(boundary): the points the rejection loop can return.
point_within(boundary) ==
    {p \in BoundingBox(boundary) : Contains(boundary, p)}

\* point_nearby without a boundary: the point dist metres from point along
\* bearing.
Destination(point, dist, bearing) == point + bearing * (dist \div CellSize)

\* The end points one call point_nearby(point, dist, bearing) can give;
\* bearing is None (random) or {b}.
Attempts(point, dist, bearing) ==
    {Destination(point, dist, b) :
        b \in (IF bearing = None THEN Bearings ELSE bearing)}

\* A mutant of Decay: the distance is left as it is.
NoDecay(dist) == dist

\* dist * 0.9
Decay(dist) == (dist * 9) \div 10

\* The while loop of point_nearby, entered with an end_point outside the
\* boundary: the points it can return.
RECURSIVE ShrinkLoop(_, _, _, _)
ShrinkLoop(point, dist, bearing, boundary) ==
    LET tries == Attempts(point, Decay(dist), bearing)
    IN  {p \in tries : Contains(boundary, p)}
        \cup (IF \A p \in tries : Contains(boundary, p)
              THEN {}
              ELSE ShrinkLoop(point, Decay(dist), bearing, boundary))

\* point_nearby(point, dist, bearing, boundary) raises ValueError.
point_nearby_raises(point, dist, bearing, boundary) ==
    /\ \E p \in Attempts(point, dist, bearing) : ~Contains(boundary, p)
    /\ ~Contains(boundary, point)

\* point_nearby(point, dist, bearing, boundary): the points it can return.
point_nearby(point, dist, bearing, boundary) ==
    LET tries == Attempts(point, dist, bearing)
    IN  {p \in tries : Contains(boundary, p)}
        \cup (IF (\A p \in tries : Contains(boundary, p))
                 \/ ~Contains(boundary, point)
              THEN {}
              ELSE ShrinkLoop(point, dist, bearing, boundary))

\* --------------------------------- mds/fake/provider.py: battery, events

\* "electric" in pt, for the names of the propulsion types.
NameHasElectric(pt) == pt \in {"electric", "electric_assist"}

has_battery(device) ==
    IF PROPULSION \in DOMAIN device
    THEN \/ BATTERY \in DOMAIN device
         \/ \E k \in DOMAIN device[PROPULSION] :
                NameHasElectric(device[PROPULSION][k])
    ELSE FALSE

recharge_battery(device) == Put(device, BATTERY, FullBattery)

\* amount and rate in hundredths.
drain_battery(device, amount, rate) ==
    IF has_battery(device)
    THEN Put(device, BATTERY, ((device[BATTERY] - amount) * (100 - rate)) \div 100)
    ELSE device

\* The model is of the default version, 0.2.0: no publication_time.
status_change_event(device, event_type, event_type_reason, event_time, event_location) ==
    Merge(device, [event_type |-> event_type,
                   event_type_reason |-> event_type_reason,
                   event_time |-> event_time,
                   event_location |-> event_location])

start_trip(device, event_time, event_location) ==
    status_change_event(device, "reserved", "user_pick_up", event_time, event_location)

\* A mutant of end_trip: the event of start_trip.
end_trip_as_start(device, event_time, event_location) ==
    status_change_event(device, "reserved", "user_pick_up", event_time, event_location)

end_trip(device, event_time, event_location) ==
    status_change_event(device, "available", "user_drop_off", event_time, event_location)

\* A mutant of device_lowbattery: the device is said to be removed.
device_lowbattery_removed(device, event_time, event_location) ==
    status_change_event(device, "removed", "low_battery", event_time, event_location)

device_lowbattery(device, event_time, event_location) ==
    status_change_event(device, "unavailable", "low_battery", event_time, event_location)

\* A mutant of device_recharged: the event is made of the device as it is.
device_recharged_as_is(device, event_time, event_location) ==
    status_change_event(device, "available", "maintenance_drop_off",
                        event_time, event_location)

\* device_recharged, the event; Recharge puts the recharged device in objs.
device_recharged(device, event_time, event_location) ==
    status_change_event(recharge_battery(device), "available",
                        "maintenance_drop_off", event_time, event_location)

trip_route(start_location, end_location) == <<start_location, end_location>>

\* device[BATTERY] is read where the device has no such key: line 707.
drain_battery_raises(device) == has_battery(device) /\ BATTERY \notin DOMAIN device

\* A mutant of make_payload: data holds every collection given.
make_payload_of_all(status_changes, trips) ==
    LET given == {k \in {"status_changes", "trips"} :
                    (IF k = "trips" THEN trips ELSE status_changes) # {}}
    IN  IF given = {}
        THEN [version |-> "0.2.0"]
        ELSE [version |-> "0.2.0",
              data |-> [k \in given |->
                          CHOOSE v \in (IF k = "trips" THEN trips ELSE status_changes) :
                              TRUE]]

\* make_payload(status_changes, trips), an argument that is None being {}
\* and one that is given {the list}: lines 709-721.
make_payload(status_changes, trips) ==
    LET payload == [version |-> "0.2.0"]
        with_changes ==
            IF status_changes # {}
            THEN Put(payload, "data",
                     [status_changes |-> CHOOSE v \in status_changes : TRUE])
            ELSE payload
    IN  IF trips # {}
        THEN Put(with_changes, "data", [trips |-> CHOOSE v \in trips : TRUE])
        ELSE with_changes

\* ------------------------------------------ provider.py: device_trip

\* What the model draws for one call of device_trip in service_hour: the
\* start time, the duration, the end point when none is given, and the
\* optional members of the trip.
TripDraws(event_location, reference_time, min_td, max_td, speed) ==
    UNION {
        {[event_time |-> t, trip_duration |-> dur, end_point |-> q,
          accuracy |-> 5, parking |-> FALSE, standard |-> TRUE, actual |-> FALSE,
          start |-> 75, rate |-> 12] :
            t \in random_date_from(reference_time, {min_td}, {max_td}),
            q \in point_nearby(extract_point(event_location),
                               (dur * speed * 8) \div 10, None, Boundary)} :
        dur \in DurationSamples}

\* math.floor(trip_duration / 60) - 1
BilledMinutes(trip_duration) == (trip_duration \div 60) - 1

\* A mutant of TripRecord: the leftover fields are not cleaned up.
TripRecordUncleaned(device, trip) == Merge(device, trip)

\* The device info merged into the trip and the fields that are not part
\* of a trip deleted: lines 459-466.
TripRecord(device, trip) ==
    LET merged == Merge(device, trip)
        no_battery == IF BATTERY \in DOMAIN merged THEN Del(merged, BATTERY) ELSE merged
    IN  IF EVENT_TIME \in DOMAIN no_battery
        THEN Del(no_battery, EVENT_TIME)
        ELSE no_battery

\* device_trip(device, event_time, event_location, speed) with the draws
\* made: the device as the call leaves it, the two status changes and
\* the trip.
device_trip(device, event_location, speed, draw) ==
    LET event_time == draw.event_time
        pick_up == start_trip(device, event_time, event_location)
        trip_duration == draw.trip_duration
        trip_distance == (trip_duration * speed * 8) \div 10
        amount == speed
        rate == (100 * trip_distance) \div (ISqrt(trip_distance) * 200)
        drained == IF has_battery(device)
                   THEN drain_battery(device, amount, rate)
                   ELSE device
        end_time == event_time + trip_duration
        end_location == to_feature(draw.end_point, end_time)
        route == trip_route(event_location, end_location)
        trip0 == [accuracy |-> draw.accuracy,
                  trip_id |-> "uuid4",
                  trip_duration |-> trip_duration,
                  trip_distance |-> trip_distance,
                  route |-> route,
                  start_time |-> event_time,
                  end_time |-> end_time]
        trip1 == IF draw.parking
                 THEN Put(trip0, "parking_verification_url", "url")
                 ELSE trip0
        trip2 == IF draw.standard
                 THEN Put(trip1, "standard_cost",
                          100 + BilledMinutes(trip_duration) * 15)
                 ELSE trip1
        trip3 == IF draw.actual
                 THEN Put(trip2, "actual_cost",
                          draw.start + BilledMinutes(trip_duration) * draw.rate)
                 ELSE trip2
        drop_off == end_trip(drained, end_time, end_location)
    IN  [device |-> drained,
         status_changes |-> <<Merge(drained, pick_up), Merge(drained, drop_off)>>,
         trip |-> TripRecord(drained, trip3)]

\* ------------------------------------------------------------ the state

VARIABLES
    speed,              \* self.speed
    objs,               \* the heap: reference -> device dict
    devices,            \* the roster devices() returned: references
    day,                \* the number of calls of service_day so far
    pc,                 \* where service_day is
    hour_open, hour_closed, inactivity,     \* the arguments of service_day
    inactive_devices,   \* service_day: the sample of line 135
    inactive_starts,    \* service_day: the events of line 136
    status_changes,     \* start_service / end_service: the list being built
    i,                  \* start_service / end_service: the position in devices
    active_devices, times, locations, removed_devices, hour,    \* service_day
    device_idx, active, removed, changes, trips,                \* service_hour
    day_status_changes, \* service_day: the last Window events of each device
    day_trips,          \* service_day: the last trip of each device
    event_count,        \* device_id -> reason -> events of day_status_changes
    trip_count,         \* device_id -> trips of day_trips
    pn_pc,              \* point_nearby with a boundary: where the call is
    pn_point, pn_dist, pn_bearing, pn_boundary,     \* its arguments
    pn_tries,           \* the iterations of its for loop so far
    pn_end_point,       \* its end_point, a set: {} before the first attempt
    pw_pc,              \* point_within: where the call is
    pw_boundary,        \* its argument
    pw_point,           \* its point, a set: {} before compute() is first called
    pw_tries,           \* the candidates it has rejected so far, up to MaxDraws
    fn,                 \* a function called on its own: its name, "" before
    fn_args,            \* its arguments
    fn_result           \* [value |-> what it returned] or [raised |-> the error]

day_vars == <<speed, objs, devices, day, pc, hour_open, hour_closed, inactivity,
          inactive_devices, inactive_starts, status_changes, i,
          active_devices, times, locations, removed_devices, hour,
          device_idx, active, removed, changes, trips,
          day_status_changes, day_trips, event_count, trip_count>>

geo_vars == <<pn_pc, pn_point, pn_dist, pn_bearing, pn_boundary, pn_tries,
              pn_end_point>>

within_vars == <<pw_pc, pw_boundary, pw_point, pw_tries>>

call_vars == <<fn, fn_args, fn_result>>

vars == <<day_vars, geo_vars, within_vars, call_vars>>

\* The dicts a list of references holds.
Dicts(list) == [j \in DOMAIN list |-> objs[list[j]]]

\* x in list, x and the elements compared as dicts
In(x, list) == \E j \in DOMAIN list : objs[list[j]] = objs[x]

\* The positions of log that the model keeps: the last n of each device.
Kept(log, n) ==
    {j \in DOMAIN log :
        Cardinality({k \in DOMAIN log :
                        k > j /\ log[k].device_id = log[j].device_id}) < n}

\* log with only the positions of keep, in order.
Restrict(log, keep) ==
    [k \in 1..Cardinality(keep) |->
        log[CHOOSE j \in keep : Cardinality({m \in keep : m <= j}) = k]]

\* day_status_changes.extend(events)
ExtendChanges(log, events) ==
    LET all == log \o events IN Restrict(all, Kept(all, Window))

\* day_trips.extend(new)
ExtendTrips(log, new) ==
    LET all == log \o new IN Restrict(all, Kept(all, 1))

\* The counts after events are appended.
Counted(count, events) ==
    [d \in DOMAIN count |->
        [r \in DOMAIN count[d] |->
            count[d][r] + Cardinality({j \in DOMAIN events :
                                          /\ events[j].device_id = d
                                          /\ events[j].event_type_reason = r})]]

TripsCounted(count, new) ==
    [d \in DOMAIN count |->
        count[d] + Cardinality({j \in DOMAIN new : new[j].device_id = d})]

\* date.replace(hour=hour_open), date.replace(hour=hour_closed)
start_time == hour_open * TD_HOUR
end_time == hour_closed * TD_HOUR

\* ------------------------------------------------- provider.py: devices

\* One device of devices(): the dict, charged if it has a battery.
NewDevice(n, propulsion) ==
    LET device == [provider_id |-> "provider_id",
                   provider_name |-> "provider_name",
                   device_id |-> n,
                   vehicle_id |-> n,
                   vehicle_type |-> "scooter",
                   propulsion_type |-> <<propulsion>>]
    IN  IF has_battery(device) THEN recharge_battery(device) ELSE device

\* No call of point_nearby is being followed.
GeoIdle ==
    /\ pn_pc = "idle"
    /\ pn_point = 0 /\ pn_dist = 0 /\ pn_bearing = None /\ pn_boundary = {}
    /\ pn_tries = 0 /\ pn_end_point = {}

\* No call of point_within is being followed.
WithinIdle ==
    /\ pw_pc = "idle" /\ pw_boundary = {} /\ pw_point = {} /\ pw_tries = 0

\* No function is called on its own.
CallIdle ==
    /\ fn = "" /\ fn_args = <<>> /\ fn_result = <<>>

\* The calls of service_day the model follows on a roster: one more for
\* each device the roster is short of MaxDevices.
MaxDaysOf(roster) == MaxDays + (MaxDevices - Len(roster))

\* The generator built with one of speeds and devices(N, ...) called, N
\* one of sizes.
Built(speeds, sizes) ==
    /\ GeoIdle /\ WithinIdle /\ CallIdle
    /\ speed \in speeds
    /\ \E N \in sizes :
        /\ objs \in {[n \in 1..N |-> NewDevice(n, p[n])] :
                        p \in [1..N -> PropulsionSamples]}
        /\ devices = [n \in 1..N |-> n]
        /\ event_count = [n \in 1..N |-> [r \in AllReasons |-> 0]]
        /\ trip_count = [n \in 1..N |-> 0]
    /\ day = 0
    /\ pc = "idle"
    /\ hour_open = 0 /\ hour_closed = 0 /\ inactivity = 0
    /\ inactive_devices = <<>> /\ inactive_starts = <<>>
    /\ status_changes = <<>> /\ i = 0
    /\ active_devices = <<>> /\ times = <<>> /\ locations = <<>>
    /\ removed_devices = <<>> /\ hour = 0
    /\ device_idx = 0 /\ active = <<>> /\ removed = <<>>
    /\ changes = <<>> /\ trips = <<>>
    /\ day_status_changes = <<>> /\ day_trips = <<>>

Init == Built(SpeedSamples, 0..MaxDevices)

\* --------------------------------------------- provider.py: service_day

UnchangedHour == UNCHANGED <<device_idx, active, removed, changes, trips>>
UnchangedCall ==
    UNCHANGED <<speed, devices, day, hour_open, hour_closed, inactivity,
                geo_vars, within_vars, call_vars>>

\* service_day is called: lines 129-135, and start_service is entered for
\* the inactive devices.
ServiceDay ==
    /\ pc \in {"idle", "done"}
    /\ day < MaxDaysOf(devices)
    /\ day' = day + 1
    /\ \E ho \in HourOpenSamples, H \in 1..MaxHours, inact \in InactivitySamples :
        /\ hour_open' = ho
        /\ hour_closed' = ho + H - 1
        /\ inactivity' = inact
        /\ inactive_devices' \in Sample(devices, (Len(devices) * inact) \div 100)
    /\ objs' = [n \in DOMAIN devices |-> objs[devices[n]]]
    /\ day_status_changes' = <<>>
    /\ day_trips' = <<>>
    /\ event_count' = [n \in DOMAIN event_count |-> [r \in AllReasons |-> 0]]
    /\ trip_count' = [n \in DOMAIN trip_count |-> 0]
    /\ inactive_starts' = <<>>
    /\ status_changes' = <<>>
    /\ i' = 1
    /\ active_devices' = <<>> /\ times' = <<>> /\ locations' = <<>>
    /\ removed_devices' = <<>> /\ hour' = 0
    /\ device_idx' = 0 /\ active' = <<>> /\ removed' = <<>>
    /\ changes' = <<>> /\ trips' = <<>>
    /\ pc' = "inactive_starts"
    /\ UNCHANGED <<speed, devices, geo_vars, within_vars, call_vars>>

\* The list start_service or end_service is working on.
ServiceList == IF pc \in {"inactive_starts", "inactive_ends"}
               THEN inactive_devices
               ELSE active_devices

\* A mutant of ResetBattery: the device as it is.
BatteryAsIs(device) == device

\* reset the battery for electric devices: lines 293-295.
ResetBattery(device) ==
    IF has_battery(device) THEN recharge_battery(device) ELSE device

\* start_service, one device of the loop: lines 279-298.
StartServiceDevice ==
    /\ pc \in {"inactive_starts", "active_starts"}
    /\ i <= Len(ServiceList)
    /\ LET ref == ServiceList[i]
           device == objs[ref]
       IN  \E event_time \in random_date_from(start_time, {StartOffset}, None),
              point \in point_within(Boundary) :
            LET feature == to_feature(point, event_time)
                service_start == status_change_event(device, "available",
                                     "service_start", event_time, feature)
                reset == ResetBattery(device)
            IN  /\ objs' = [objs EXCEPT ![ref] = reset]
                /\ status_changes' = Append(status_changes,
                                            Merge(reset, service_start))
    /\ i' = i + 1
    /\ UNCHANGED <<pc, inactive_devices, inactive_starts, active_devices, times,
                   locations, removed_devices, hour, day_status_changes,
                   day_trips, event_count, trip_count>>
    /\ UnchangedCall
    /\ UnchangedHour

\* start_service returns the inactive devices' events: lines 136-138,
\* and end_service is entered.
InactiveStarted ==
    /\ pc = "inactive_starts"
    /\ i > Len(inactive_devices)
    /\ inactive_starts' = status_changes
    /\ status_changes' = <<>>
    /\ i' = 1
    /\ pc' = "inactive_ends"
    /\ UNCHANGED <<objs, inactive_devices, active_devices, times, locations,
                   removed_devices, hour, day_status_changes, day_trips,
                   event_count, trip_count>>
    /\ UnchangedCall
    /\ UnchangedHour

\* The locations end_service is given.
ServiceLocations == IF pc = "inactive_ends"
                    THEN [j \in DOMAIN inactive_starts |-> inactive_starts[j][EVENT_LOC]]
                    ELSE locations

\* A mutant of EndPoint: the first location, whatever the device.
EndPointOfFirst(list, locs, device) == extract_point(locs[1])

\* extract_point(locations[devices.index(device)]): line 334; list holds
\* the dicts of devices.
EndPoint(list, locs, device) == extract_point(locs[Index(list, device)])

\* end_service, one device of the loop: lines 325-346.
EndServiceDevice ==
    /\ pc \in {"inactive_ends", "active_ends"}
    /\ i <= Len(ServiceList)
    /\ LET device == objs[ServiceList[i]]
       IN  \E event_time \in random_date_from(end_time, None, {EndOffset}) :
            LET point == EndPoint(Dicts(ServiceList), ServiceLocations, device)
                feature == to_feature(point, event_time)
                service_end == status_change_event(device, "removed",
                                   "service_end", event_time, feature)
            IN  status_changes' = Append(status_changes, Merge(device, service_end))
    /\ i' = i + 1
    /\ UNCHANGED <<objs, pc, inactive_devices, inactive_starts, active_devices,
                   times, locations, removed_devices, hour, day_status_changes,
                   day_trips, event_count, trip_count>>
    /\ UnchangedCall
    /\ UnchangedHour

\* A mutant of NotInactive: the whole roster.
WholeRoster(roster, inactive) == roster

\* [d for d in devices if d not in inactive_devices]: line 142.
NotInactive(roster, inactive) ==
    LET Keep(d) == ~In(d, inactive) IN SelectSeq(roster, Keep)

\* end_service returns the inactive devices' events: lines 138-142, and
\* start_service is entered for the active devices.
InactiveEnded ==
    /\ pc = "inactive_ends"
    /\ i > Len(inactive_devices)
    /\ LET events == inactive_starts \o status_changes
       IN  /\ day_status_changes' = ExtendChanges(day_status_changes, events)
           /\ event_count' = Counted(event_count, events)
    /\ active_devices' = NotInactive(devices, inactive_devices)
    /\ status_changes' = <<>>
    /\ i' = 1
    /\ pc' = "active_starts"
    /\ UNCHANGED <<objs, inactive_devices, inactive_starts, times, locations,
                   removed_devices, hour, day_trips, trip_count>>
    /\ UnchangedCall
    /\ UnchangedHour

\* start_service returns the active devices' events: lines 143-155.
ActiveStarted ==
    /\ pc = "active_starts"
    /\ i > Len(active_devices)
    /\ day_status_changes' = ExtendChanges(day_status_changes, status_changes)
    /\ event_count' = Counted(event_count, status_changes)
    /\ times' = [j \in DOMAIN status_changes |-> start_time]
    /\ locations' = [j \in DOMAIN status_changes |-> status_changes[j][EVENT_LOC]]
    /\ removed_devices' = <<>>
    /\ hour' = hour_open
    /\ status_changes' = <<>>
    /\ i' = 0
    /\ pc' = "recharge"
    /\ UNCHANGED <<objs, inactive_devices, inactive_starts, active_devices,
                   day_trips, trip_count>>
    /\ UnchangedCall
    /\ UnchangedHour

\* recharged, with the devices before position j recharged as the loop of
\* devices_recharged has left them.
RechargedSoFar(recharged, j) ==
    [m \in DOMAIN recharged |->
        IF m < j THEN recharge_battery(objs[recharged[m]]) ELSE objs[recharged[m]]]

\* devices_recharged(devices, event_times) with the points drawn: lines
\* 588-614, event_times a list as long as devices, no event_locations.
devices_recharged(recharged, event_times, points) ==
    [j \in DOMAIN recharged |->
        LET device == objs[recharged[j]]
            event_time == event_times[Index(RechargedSoFar(recharged, j), device)]
            event_location == to_feature(points[j], event_time)
        IN  device_recharged(device, event_time, event_location)]

\* A mutant of RechargeCount: at least one device is recharged.
RechargeAtLeastOne(pool) == 1..Max({1, Len(pool)})

\* random.randint(0, len(removed_devices)): line 157.
RechargeCount(pool) == 0..Len(pool)

\* The top of the hour loop of service_day: lines 155-167, and
\* service_hour is entered (line 212).
Recharge ==
    /\ pc = "recharge"
    /\ \E k \in RechargeCount(removed_devices) :
        \E recharged \in Sample(removed_devices, k) :
            IF Len(recharged) > 0
            THEN \E points \in [1..k -> point_within(Boundary)] :
                    LET event_times == [j \in 1..k |-> objs[recharged[j]][EVENT_TIME]]
                        events == devices_recharged(recharged, event_times, points)
                        after == [r \in DOMAIN objs |->
                                    IF r \in Range(recharged)
                                    THEN recharge_battery(objs[r])
                                    ELSE objs[r]]
                        NotRecharged(d) ==
                            ~\E j \in 1..k : after[recharged[j]] = after[d]
                    IN  /\ active_devices' = active_devices \o recharged
                        /\ objs' = after
                        /\ day_status_changes' =
                                ExtendChanges(day_status_changes, events)
                        /\ event_count' = Counted(event_count, events)
                        /\ times' = times \o [j \in 1..k |-> events[j][EVENT_TIME]]
                        /\ locations' =
                                locations \o [j \in 1..k |-> events[j][EVENT_LOC]]
                        /\ removed_devices' = SelectSeq(removed_devices, NotRecharged)
            ELSE UNCHANGED <<active_devices, objs, day_status_changes,
                             event_count, times, locations, removed_devices>>
    /\ device_idx' = 1
    /\ active' = <<>> /\ removed' = <<>> /\ changes' = <<>> /\ trips' = <<>>
    /\ pc' = "hour"
    /\ UNCHANGED <<inactive_devices, inactive_starts, status_changes, i, hour,
                   day_trips, trip_count>>
    /\ UnchangedCall

\* random.choices([True, False], weights=[1 - inactivity, inactivity])
TakesTrip(inact) ==
    {b \in BOOLEAN : (b /\ inact < 100) \/ (~b /\ inact > 0)}

\* A mutant of BatteryTooLow: a device without the field counts as empty.
BatteryLowOrMissing(device) ==
    (IF BATTERY \in DOMAIN device THEN device[BATTERY] ELSE 0) < LowBattery

\* has_battery(device) and device[BATTERY] < 0.2: line 224.
BatteryTooLow(device) == has_battery(device) /\ device[BATTERY] < LowBattery

\* service_hour, one device of the loop: lines 216-249.
ServiceHourDevice ==
    /\ pc = "hour"
    /\ device_idx <= Len(active_devices)
    /\ LET ref == active_devices[device_idx]
           device == objs[ref]
           appended == Append(active, ref)
           location == locations[device_idx]
           current_time == times[device_idx]
       IN  IF BatteryTooLow(device)
           THEN LET lowbattery == device_lowbattery(device, current_time, location)
                    rmvd == Put(device, EVENT_TIME, lowbattery[EVENT_TIME])
                    new == Max(DOMAIN objs) + 1
                IN  /\ active' = RemoveAt(appended,
                                    Index([j \in DOMAIN appended |-> objs[appended[j]]],
                                          device))
                    /\ objs' = (new :> rmvd) @@ objs
                    /\ removed' = Append(removed, new)
                    /\ changes' = Append(changes, lowbattery)
                    /\ UNCHANGED <<trips, times, locations>>
           ELSE \E take \in TakesTrip(inactivity) :
                    IF take
                    THEN \E draw \in TripDraws(location, current_time, 0, TD_HOUR, speed) :
                            LET made == device_trip(device, location, speed, draw)
                                status == made.status_changes
                            IN  /\ objs' = [objs EXCEPT ![ref] = made.device]
                                /\ changes' = changes \o status
                                /\ trips' = Append(trips, made.trip)
                                /\ times' = [times EXCEPT ![device_idx] =
                                                status[Len(status)][EVENT_TIME]]
                                /\ locations' = [locations EXCEPT ![device_idx] =
                                                    status[Len(status)][EVENT_LOC]]
                                /\ active' = appended
                                /\ UNCHANGED removed
                    ELSE /\ IF has_battery(device)
                            THEN \E rate \in LeakSamples :
                                    objs' = [objs EXCEPT ![ref] =
                                                drain_battery(device, 0, rate)]
                            ELSE UNCHANGED objs
                         /\ active' = appended
                         /\ UNCHANGED <<removed, changes, trips, times, locations>>
    /\ device_idx' = device_idx + 1
    /\ UNCHANGED <<pc, inactive_devices, inactive_starts, status_changes, i,
                   active_devices, removed_devices, hour, day_status_changes,
                   day_trips, event_count, trip_count>>
    /\ UnchangedCall

\* A mutant of Realigned: the values by position, as if no device had
\* left the list.
NotRealigned(values, old, new) == [j \in DOMAIN new |-> values[j]]

\* [values[devices.index(a)] for a in active]: lines 253-254; old and new
\* hold the dicts of devices and of active.
Realigned(values, old, new) == [j \in DOMAIN new |-> values[Index(old, new[j])]]

\* A mutant of Extended: the list is left as it was.
NotExtended(list, more) == list

\* list.extend(more)
Extended(list, more) == list \o more

\* service_hour returns, lines 251-257, and service_day takes the result,
\* lines 170-181; after the last hour end_service is entered, line 184.
ServiceHourReturn ==
    /\ pc = "hour"
    /\ device_idx > Len(active_devices)
    /\ active_devices' = active
    /\ times' = Realigned(times, Dicts(active_devices), Dicts(active))
    /\ locations' = Realigned(locations, Dicts(active_devices), Dicts(active))
    /\ day_status_changes' = ExtendChanges(day_status_changes, changes)
    /\ event_count' = Counted(event_count, changes)
    /\ day_trips' = ExtendTrips(day_trips, trips)
    /\ trip_count' = TripsCounted(trip_count, trips)
    /\ removed_devices' = Extended(removed_devices, removed)
    /\ objs' = [r \in Range(devices) \cup Range(active)
                      \cup Range(removed_devices) \cup Range(removed) |-> objs[r]]
    /\ device_idx' = 0
    /\ active' = <<>> /\ removed' = <<>> /\ changes' = <<>> /\ trips' = <<>>
    /\ IF hour < hour_closed
       THEN /\ hour' = hour + 1
            /\ pc' = "recharge"
            /\ UNCHANGED <<status_changes, i>>
       ELSE /\ pc' = "active_ends"
            /\ status_changes' = <<>>
            /\ i' = 1
            /\ UNCHANGED hour
    /\ UNCHANGED <<inactive_devices, inactive_starts>>
    /\ UnchangedCall

\* end_service returns the active devices' events and service_day
\* returns: lines 184-186.
ActiveEnded ==
    /\ pc = "active_ends"
    /\ i > Len(active_devices)
    /\ day_status_changes' = ExtendChanges(day_status_changes, status_changes)
    /\ event_count' = Counted(event_count, status_changes)
    /\ status_changes' = <<>>
    /\ i' = 0
    /\ pc' = "done"
    /\ UNCHANGED <<objs, inactive_devices, inactive_starts, active_devices,
                   times, locations, removed_devices, hour, day_trips, trip_count>>
    /\ UnchangedCall
    /\ UnchangedHour

Next ==
    \/ ServiceDay
    \/ StartServiceDevice
    \/ InactiveStarted
    \/ EndServiceDevice
    \/ InactiveEnded
    \/ ActiveStarted
    \/ Recharge
    \/ ServiceHourDevice
    \/ ServiceHourReturn
    \/ ActiveEnded

Spec == Init /\ [][Next]_vars

\* One device of a generator built with a higher speed.
InitFast == Built(FastSpeedSamples, {1})

SpecFast == InitFast /\ [][Next]_vars

\* ------------------------- geometry.py: point_nearby, step by step

\* The arguments the model calls point_nearby with.
GeoPoints == 0..4
GeoDistances == {0, 4000, 8000, 28800}
GeoBearings == {None} \cup {{b} : b \in Bearings}

\* No roster, no day: the generator's state while point_nearby alone is
\* followed.
NoDay ==
    /\ speed = 0 /\ objs = <<>> /\ devices = <<>> /\ day = 0 /\ pc = "idle"
    /\ hour_open = 0 /\ hour_closed = 0 /\ inactivity = 0
    /\ inactive_devices = <<>> /\ inactive_starts = <<>>
    /\ status_changes = <<>> /\ i = 0
    /\ active_devices = <<>> /\ times = <<>> /\ locations = <<>>
    /\ removed_devices = <<>> /\ hour = 0
    /\ device_idx = 0 /\ active = <<>> /\ removed = <<>>
    /\ changes = <<>> /\ trips = <<>>
    /\ day_status_changes = <<>> /\ day_trips = <<>>
    /\ event_count = <<>> /\ trip_count = <<>>

\* point_nearby(point, dist, bearing, boundary) is called: line 83.
InitGeo ==
    /\ NoDay /\ WithinIdle /\ CallIdle
    /\ pn_pc = "for"
    /\ pn_point \in GeoPoints
    /\ pn_dist \in GeoDistances
    /\ pn_bearing \in GeoBearings
    /\ pn_boundary = Boundary
    /\ pn_tries = 0
    /\ pn_end_point = {}

\* MAX_TRIES = 50 if bearing is None else 1
MaxTries(bearing) == IF bearing = None THEN MAX_TRIES ELSE 1

\* One iteration of the for loop: lines 85-88.
PointNearbyTry ==
    /\ pn_pc = "for"
    /\ pn_tries < MaxTries(pn_bearing)
    /\ \E end_point \in Attempts(pn_point, pn_dist, pn_bearing) :
        /\ pn_end_point' = {end_point}
        /\ pn_pc' = IF Contains(pn_boundary, end_point) THEN "returned" ELSE "for"
    /\ pn_tries' = pn_tries + 1
    /\ UNCHANGED <<pn_point, pn_dist, pn_bearing, pn_boundary, day_vars,
                   within_vars, call_vars>>

\* The for loop is over: lines 93-94.
PointNearbyTriesOver ==
    /\ pn_pc = "for"
    /\ pn_tries >= MaxTries(pn_bearing)
    /\ pn_pc' = IF ~Contains(pn_boundary, pn_point) THEN "raised" ELSE "while"
    /\ UNCHANGED <<pn_point, pn_dist, pn_bearing, pn_boundary, pn_tries,
                   pn_end_point, day_vars, within_vars, call_vars>>

\* One iteration of the while loop, or its end: lines 96-100.
PointNearbyShrink ==
    /\ pn_pc = "while"
    /\ IF \E p \in pn_end_point : ~Contains(pn_boundary, p)
       THEN /\ pn_dist' = Decay(pn_dist)
            /\ \E end_point \in Attempts(pn_point, Decay(pn_dist), pn_bearing) :
                    pn_end_point' = {end_point}
            /\ UNCHANGED pn_pc
       ELSE /\ pn_pc' = "returned"
            /\ UNCHANGED <<pn_dist, pn_end_point>>
    /\ UNCHANGED <<pn_point, pn_bearing, pn_boundary, pn_tries, day_vars,
                   within_vars, call_vars>>

NextGeo ==
    \/ PointNearbyTry
    \/ PointNearbyTriesOver
    \/ PointNearbyShrink

SpecGeo == InitGeo /\ [][NextGeo]_vars

\* A call of point_nearby that has not returned or raised goes on running.
SpecGeoFair == InitGeo /\ [][NextGeo]_vars /\ WF_vars(NextGeo)

\* ------------------------------------ mds/fake/geometry.py: point_within

\* The polygons point_within is called with: the non-empty sets of cells.
WithinBoundaries == (SUBSET GeoPoints) \ {{}}

\* point_within(boundary) is called: line 11.
InitWithin ==
    /\ NoDay /\ GeoIdle /\ CallIdle
    /\ pw_pc = "compute"
    /\ pw_boundary \in WithinBoundaries
    /\ pw_point = {}
    /\ pw_tries = 0

\* point = compute(): line 32.
PointWithinCompute ==
    /\ pw_pc = "compute"
    /\ \E p \in BoundingBox(pw_boundary) : pw_point' = {p}
    /\ pw_pc' = "while"
    /\ UNCHANGED <<pw_boundary, pw_tries, day_vars, geo_vars, call_vars>>

\* The body of the while loop, with p the point compute() draws: lines 33-34.
PointWithinRedraw(p) ==
    /\ pw_pc = "while"
    /\ \E q \in pw_point : ~Contains(pw_boundary, q)
    /\ p \in BoundingBox(pw_boundary)
    /\ pw_point' = {p}
    /\ pw_tries' = Min({pw_tries + 1, MaxDraws})
    /\ UNCHANGED <<pw_pc, pw_boundary, day_vars, geo_vars, call_vars>>

\* The while loop is over and the point returned: lines 33, 36.
PointWithinReturn ==
    /\ pw_pc = "while"
    /\ \A q \in pw_point : Contains(pw_boundary, q)
    /\ pw_pc' = "returned"
    /\ UNCHANGED <<pw_boundary, pw_point, pw_tries, day_vars, geo_vars, call_vars>>

NextWithin ==
    \/ PointWithinCompute
    \/ \E p \in GeoPoints : PointWithinRedraw(p)
    \/ PointWithinReturn

\* compute() draws an interior point.
PointWithinRedrawInside == \E p \in pw_boundary : PointWithinRedraw(p)

\* The call runs on, and random.uniform does not miss the polygon for ever.
SpecWithin ==
    /\ InitWithin
    /\ [][NextWithin]_vars
    /\ WF_vars(NextWithin)
    /\ WF_vars(PointWithinRedrawInside)

\* ------------------------- provider.py: the functions called on their own

\* The battery levels (hundredths) and the propulsion lists of the records
\* the battery functions are called with.
BatterySamples == {0, 10, 50, 100}
PropulsionLists == {<<"human">>, <<"electric">>, <<"electric_assist">>,
                    <<"human", "electric">>, <<"combustion">>}
AmountSamples == {0, 10}
RateSamples == {0, 50}

\* Device records with and without a battery_pct field, with and without a
\* propulsion_type field.
DeviceRecords ==
    {Merge(Merge([device_id |-> 1], b), p) :
        b \in {<<>>} \cup {[k \in {BATTERY} |-> v] : v \in BatterySamples},
        p \in {<<>>} \cup {[k \in {PROPULSION} |-> l] : l \in PropulsionLists}}

BatteryCalls ==
    {[device |-> d, amount |-> a, rate |-> r] :
        d \in DeviceRecords, a \in AmountSamples, r \in RateSamples}

\* The record collections make_payload is called with: None or a list.
Collections == {{}} \cup {{l} : l \in {<<>>, <<"a">>, <<"a", "b">>}}

PayloadCalls == {[status_changes |-> c, trips |-> t] : c, t \in Collections}

\* random.gammavariate(3, 4.5) * 60, in seconds: under a minute, around
\* a minute, and the mean.
TripDurationSamples == {30, 59, 60, 61, 120, 810}
\* random.randint(75, 150) and random.randint(12, 20)
StartFeeSamples == {75, 150}
RateFeeSamples == {12, 20}

\* What device_trip draws when it is called with an event_time and an
\* event_location.
TripCallDraws(event_time, event_location, speed_) ==
    UNION {
        {[event_time |-> event_time, trip_duration |-> dur, end_point |-> q,
          accuracy |-> 5, parking |-> FALSE, standard |-> st, actual |-> ac,
          start |-> start, rate |-> rate] :
            q \in point_nearby(extract_point(event_location),
                               (dur * speed_ * 8) \div 10, None, Boundary),
            st \in BOOLEAN, ac \in BOOLEAN,
            start \in StartFeeSamples, rate \in RateFeeSamples} :
        dur \in TripDurationSamples}

\* device_trip(device, event_time, event_location) on a generator built
\* with a speed, and the draws the call makes.
TripCalls ==
    LET loc == to_feature(1, 7 * TD_HOUR)
    IN  UNION {
            {[device |-> NewDevice(1, p), event_location |-> loc, speed |-> s,
              draw |-> dr] :
                p \in PropulsionSamples,
                dr \in TripCallDraws(7 * TD_HOUR + 1800, loc, s)} :
            s \in SpeedSamples}

InitCall ==
    /\ NoDay /\ GeoIdle /\ WithinIdle
    /\ fn = ""
    /\ fn_args \in BatteryCalls \cup PayloadCalls \cup TripCalls
    /\ fn_result = <<>>

UnchangedByCall == UNCHANGED <<fn_args, day_vars, geo_vars, within_vars>>

\* has_battery(device)
CallHasBattery ==
    /\ fn = "" /\ fn_args \in BatteryCalls
    /\ fn' = "has_battery"
    /\ fn_result' = [value |-> has_battery(fn_args.device)]
    /\ UnchangedByCall

\* recharge_battery(device): the device after the call.
CallRechargeBattery ==
    /\ fn = "" /\ fn_args \in BatteryCalls
    /\ fn' = "recharge_battery"
    /\ fn_result' = [value |-> recharge_battery(fn_args.device)]
    /\ UnchangedByCall

\* drain_battery(device, amount, rate): the device after the call, or the
\* error raised.
CallDrainBattery ==
    /\ fn = "" /\ fn_args \in BatteryCalls
    /\ fn' = "drain_battery"
    /\ fn_result' = IF drain_battery_raises(fn_args.device)
                    THEN [raised |-> "KeyError"]
                    ELSE [value |-> drain_battery(fn_args.device, fn_args.amount,
                                                  fn_args.rate)]
    /\ UnchangedByCall

\* make_payload(status_changes, trips)
CallMakePayload ==
    /\ fn = "" /\ fn_args \in PayloadCalls
    /\ fn' = "make_payload"
    /\ fn_result' = [value |-> make_payload(fn_args.status_changes, fn_args.trips)]
    /\ UnchangedByCall

\* device_trip(device, event_time, event_location): the device after the
\* call, the status changes and the trip.
CallDeviceTrip ==
    /\ fn = "" /\ fn_args \in TripCalls
    /\ fn' = "device_trip"
    /\ fn_result' = [value |-> device_trip(fn_args.device, fn_args.event_location,
                                           fn_args.speed, fn_args.draw)]
    /\ UnchangedByCall

NextCall ==
    \/ CallHasBattery
    \/ CallRechargeBattery
    \/ CallDrainBattery
    \/ CallMakePayload
    \/ CallDeviceTrip

SpecCall == InitCall /\ [][NextCall]_vars

\* ---------------------------------------------------------- the claims

\* The device_ids of the roster.
DeviceIds == DOMAIN event_count

\* The events of device d in log, in the order of log.
EventsOf(log, d) == LET Mine(e) == e.device_id = d IN SelectSeq(log, Mine)

Reason(e) == e.event_type_reason
Coordinates(e) == e[EVENT_LOC].coordinates

\* C1: for every device, the event_time values of its status changes, in
\* the order service_day emits them, are non-decreasing.
C1_EventTimesNonDecreasing ==
    \A d \in DeviceIds :
        LET ev == EventsOf(day_status_changes, d)
        IN  \A j \in 1..(Len(ev) - 1) : ev[j][EVENT_TIME] <= ev[j + 1][EVENT_TIME]

\* C2 as stated: for every two consecutive events of a device, a pick-up,
\* a low_battery, a maintenance_drop_off and a service_end are at the
\* location of the event before them.
C2_LocationContinuity ==
    \A d \in DeviceIds :
        LET ev == EventsOf(day_status_changes, d)
        IN  \A j \in 1..(Len(ev) - 1) :
                Reason(ev[j + 1]) \in {"user_pick_up", "low_battery",
                                       "maintenance_drop_off", "service_end"}
                    => Coordinates(ev[j + 1]) = Coordinates(ev[j])

\* C2 as amended: for every two consecutive events of a device, a pick-up,
\* a low_battery and a service_end are at the location of the event before
\* them, and a maintenance_drop_off is at a point of the boundary, which
\* need not be the location of the low_battery before it.
C2_LocationContinuityButRecharge ==
    \A d \in DeviceIds :
        LET ev == EventsOf(day_status_changes, d)
        IN  \A j \in 1..(Len(ev) - 1) :
                /\ Reason(ev[j + 1]) \in {"user_pick_up", "low_battery", "service_end"}
                        => Coordinates(ev[j + 1]) = Coordinates(ev[j])
                /\ Reason(ev[j + 1]) = "maintenance_drop_off"
                        => Contains(Boundary, Coordinates(ev[j + 1]))

\* A device was dropped off after a recharge away from where its battery
\* ran low, and its next event is where it was dropped off.
C2_Witness ==
    \E d \in DeviceIds :
        LET ev == EventsOf(day_status_changes, d)
        IN  \E j \in 1..(Len(ev) - 2) :
                /\ Reason(ev[j]) = "low_battery"
                /\ Reason(ev[j + 1]) = "maintenance_drop_off"
                /\ Coordinates(ev[j + 1]) # Coordinates(ev[j])
                /\ Reason(ev[j + 2]) \in {"user_pick_up", "service_end"}
                /\ Coordinates(ev[j + 2]) = Coordinates(ev[j + 1])

\* C3: when service_day returns, every device of the roster has exactly
\* one service_end event.
C3_EveryDeviceEnded ==
    pc = "done" => \A d \in DeviceIds : event_count[d]["service_end"] = 1

\* The device_ids of the devices sampled as inactive for the day.
InactiveIds == {objs[inactive_devices[j]].device_id : j \in DOMAIN inactive_devices}

\* How many events of log have reason r and device d.
CountIn(log, d, r) ==
    Cardinality({j \in DOMAIN log : log[j].device_id = d /\ Reason(log[j]) = r})

\* C4: once end_service has returned for them, every device sampled as
\* inactive has exactly two events, an available:service_start and a
\* removed:service_end at the same coordinates, and has no trip and no
\* other event, to the end of the day.
C4_InactiveDevices ==
    pc \in {"active_starts", "recharge", "hour", "active_ends", "done"} =>
        \A d \in InactiveIds :
            LET ev == EventsOf(day_status_changes, d)
            IN  /\ \A r \in AllReasons :
                    event_count[d][r] =
                        IF r \in {"service_start", "service_end"} THEN 1 ELSE 0
                /\ trip_count[d] = 0
                /\ Len(ev) = 2
                /\ ev[1].event_type = "available" /\ Reason(ev[1]) = "service_start"
                /\ ev[2].event_type = "removed" /\ Reason(ev[2]) = "service_end"
                /\ Coordinates(ev[2]) = Coordinates(ev[1])
                /\ EventsOf(changes, d) = <<>>
                /\ EventsOf(status_changes, d) = <<>>
                /\ EventsOf(trips, d) = <<>>
                /\ EventsOf(day_trips, d) = <<>>

\* The day is over, one device was inactive and another took a trip.
C4_Witness ==
    /\ pc = "done"
    /\ InactiveIds # {}
    /\ \E d \in DeviceIds \ InactiveIds : trip_count[d] > 0

\* C5: every trip of service_hour comes with exactly two events of its
\* device in that hour, a reserved:user_pick_up at the trip's start_time
\* and then an available:user_drop_off at its end_time; and the day's
\* pick-ups, drop-offs and trips are equal in number, device by device.
C5_TripBracketed ==
    /\ \A d \in DeviceIds :
        /\ event_count[d]["user_pick_up"] = trip_count[d]
        /\ event_count[d]["user_drop_off"] = trip_count[d]
        /\ CountIn(changes, d, "user_pick_up") = Len(EventsOf(trips, d))
        /\ CountIn(changes, d, "user_drop_off") = Len(EventsOf(trips, d))
    /\ \A j \in DOMAIN trips :
        LET ev == EventsOf(changes, trips[j].device_id)
        IN  /\ Len(ev) = 2
            /\ ev[1].event_type = "reserved" /\ Reason(ev[1]) = "user_pick_up"
            /\ ev[1][EVENT_TIME] = trips[j].start_time
            /\ ev[2].event_type = "available" /\ Reason(ev[2]) = "user_drop_off"
            /\ ev[2][EVENT_TIME] = trips[j].end_time

\* Two devices have taken a trip in the same hour, after an hour with trips.
C5_Witness ==
    /\ pc = "hour"
    /\ Len(trips) = 2
    /\ \E d \in DeviceIds : trip_count[d] > 0

ValidPair(e) ==
    /\ e.event_type \in EVENT_TYPES
    /\ e.event_type_reason \in EVENT_TYPE_REASONS[e.event_type]

\* C6: every status change the generator has made, in every list that
\* holds them, has an event_type and an event_type_reason of the table.
C6_ValidPairs ==
    \A log \in {day_status_changes, changes, status_changes, inactive_starts} :
        \A j \in DOMAIN log : ValidPair(log[j])

\* The day is over and each of the six kinds of event was emitted.
C6_Witness ==
    /\ pc = "done"
    /\ \A r \in {"service_start", "service_end", "user_pick_up", "user_drop_off",
                 "low_battery", "maintenance_drop_off"} :
            \E d \in DeviceIds : event_count[d][r] > 0

\* C7: a step of service_hour on a device whose battery is below 0.2 adds
\* exactly one unavailable:low_battery event, at the device's tracked time
\* and location, makes no trip and leaves the battery as it is; the device
\* is not in the active list and a copy of it, with the event's time, is
\* the last of the removed list.  When service_hour returns, the removed
\* devices are in service_day's pool and not in its active list, and
\* times and locations are as long as the active list.
C7_LowBatteryRemoved ==
    [][/\ (/\ pc = "hour"
           /\ device_idx <= Len(active_devices)
           /\ BATTERY \in DOMAIN objs[active_devices[device_idx]]
           /\ objs[active_devices[device_idx]][BATTERY] < LowBattery)
          => LET ref == active_devices[device_idx]
                 device == objs[ref]
                 added == changes'[Len(changes')]
             IN  /\ Len(changes') = Len(changes) + 1
                 /\ SubSeq(changes', 1, Len(changes)) = changes
                 /\ added.event_type = "unavailable"
                 /\ Reason(added) = "low_battery"
                 /\ added.device_id = device.device_id
                 /\ added[EVENT_TIME] = times[device_idx]
                 /\ added[EVENT_LOC] = locations[device_idx]
                 /\ trips' = trips
                 /\ objs'[ref] = device
                 /\ \A j \in DOMAIN active' :
                        objs'[active'[j]].device_id # device.device_id
                 /\ Len(removed') = Len(removed) + 1
                 /\ objs'[removed'[Len(removed')]] =
                        Put(device, EVENT_TIME, times[device_idx])
       /\ (pc = "hour" /\ device_idx > Len(active_devices))
          => /\ \A j \in DOMAIN removed :
                /\ removed[j] \in Range(removed_devices')
                /\ \A k \in DOMAIN active_devices' :
                        objs'[active_devices'[k]].device_id # objs[removed[j]].device_id
                /\ CountIn(changes, objs[removed[j]].device_id, "low_battery") = 1
                /\ CountIn(changes, objs[removed[j]].device_id, "user_pick_up") = 0
             /\ Len(times') = Len(active_devices')
             /\ Len(locations') = Len(active_devices')
      ]_vars

\* In one hour a device was removed for its battery and another took a trip.
C7_Witness ==
    /\ pc = "hour"
    /\ removed # <<>>
    /\ trips # <<>>
    /\ device_idx > Len(active_devices)

\* C8: a device of the roster without a battery field has no low_battery
\* and no maintenance_drop_off event, and no copy of it is in the removed
\* pool or in the removed list of the hour.
C8_NoBatteryNeverRemoved ==
    \A n \in DOMAIN devices :
        BATTERY \notin DOMAIN objs[devices[n]] =>
            LET d == objs[devices[n]].device_id
            IN  /\ event_count[d]["low_battery"] = 0
                /\ event_count[d]["maintenance_drop_off"] = 0
                /\ CountIn(changes, d, "low_battery") = 0
                /\ \A r \in Range(removed_devices) \cup Range(removed) :
                        objs[r].device_id # d

\* A mixed roster at the end of a day: a device without a battery took
\* trips and a device with one was removed.
C8_Witness ==
    /\ pc = "done"
    /\ \E n, m \in DOMAIN devices :
        /\ BATTERY \notin DOMAIN objs[devices[n]]
        /\ trip_count[objs[devices[n]].device_id] > 1
        /\ event_count[objs[devices[m]].device_id]["low_battery"] > 0

\* The operating hours whose service_hour has returned.
HoursDone ==
    IF pc \in {"recharge", "hour"} THEN hour - hour_open
    ELSE IF pc \in {"active_ends", "done"} THEN hour_closed - hour_open + 1
    ELSE 0

RECURSIVE SumOver(_, _)
SumOver(f, S) ==
    IF S = {} THEN 0 ELSE LET x == CHOOSE y \in S : TRUE IN f[x] + SumOver(f, S \ {x})

\* C9: once start_service has returned, every device has exactly one
\* service_start event; a device takes at most one trip in an operating
\* hour, an inactive device none, so that the trips of the day are at
\* most (number of day-active devices) x (operating hours).
C9_StartsAndTrips ==
    /\ pc \in {"recharge", "hour", "active_ends", "done"}
        => \A d \in DeviceIds : event_count[d]["service_start"] = 1
    /\ \A d \in DeviceIds :
        /\ trip_count[d] <= HoursDone
        /\ Len(EventsOf(trips, d)) <= 1
        /\ d \in InactiveIds => trip_count[d] = 0 /\ EventsOf(trips, d) = <<>>
    /\ SumOver(trip_count, DeviceIds)
            <= (Len(devices) - Len(inactive_devices)) * HoursDone
    /\ pc = "done" =>
            SumOver(trip_count, DeviceIds)
                <= (Len(devices) - Len(inactive_devices))
                        * (hour_closed - hour_open + 1)

\* The day is over for a roster of two, three hours long: one device took
\* a trip in every hour.
C9_Witness ==
    /\ pc = "done"
    /\ Len(devices) = 2
    /\ hour_closed - hour_open + 1 = 3
    /\ \E d \in DeviceIds : trip_count[d] = 3

\* C10: when point_nearby returns from a call with a boundary, the point
\* it returns is inside the boundary.
C10_NearbyInsideBoundary ==
    pn_pc = "returned" =>
        /\ pn_end_point # {}
        /\ \A p \in pn_end_point : p \in pn_boundary

\* point_nearby returned after its for loop had run out and the distance
\* had been shrunk.
C10_Witness ==
    /\ pn_pc = "returned"
    /\ pn_tries = MAX_TRIES
    /\ pn_dist \notin GeoDistances

\* C11, as the spec has it: called with a boundary that does not contain
\* the origin, point_nearby never returns a point.
C11_OutsideNeverReturns ==
    (pn_pc # "idle" /\ pn_point \notin pn_boundary) => pn_pc # "returned"

\* C11: called with a boundary that does not contain the origin,
\* point_nearby never enters its shrinking loop: it returns a point only
\* if one of its tries (50 with a random bearing, 1 with a fixed one), at
\* the distance given, fell inside the boundary, and it raises ValueError
\* when all the tries are spent and none did.
C11_OutsideRaisesUnlessFound ==
    (pn_pc # "idle" /\ pn_point \notin pn_boundary) =>
        /\ pn_pc \in {"for", "returned", "raised"}
        /\ pn_dist \in GeoDistances
        /\ pn_pc = "returned" =>
                pn_end_point # {} /\ \A p \in pn_end_point : p \in pn_boundary
        /\ pn_pc = "raised" =>
                /\ pn_tries = IF pn_bearing = None THEN MAX_TRIES ELSE 1
                /\ \A p \in pn_end_point : p \notin pn_boundary
        /\ (pn_pc = "for" /\ pn_tries = IF pn_bearing = None THEN MAX_TRIES ELSE 1)
                => \A p \in pn_end_point : p \notin pn_boundary

\* From an origin outside the boundary, the 50 tries of a random bearing
\* are spent and ValueError is raised.
C11_Witness ==
    /\ pn_pc = "raised"
    /\ pn_point \notin pn_boundary
    /\ pn_bearing = None
    /\ pn_dist > 0

\* C12: point_within returns only a point of the boundary, after it has
\* redrawn every candidate that fell outside, and under fair sampling of
\* the bounding box the call returns.
C12_WithinReturnsInside ==
    /\ [](pw_pc = "returned" =>
            pw_point # {} /\ \A p \in pw_point : p \in pw_boundary)
    /\ [](pw_pc = "while" /\ pw_tries > 0 => pw_point # {})
    /\ <>(pw_pc = "returned")

\* point_within has returned after it rejected a candidate twice.
C12_Witness ==
    /\ pw_pc = "returned"
    /\ pw_tries = MaxDraws
    /\ pw_boundary # BoundingBox(pw_boundary)

\* Some value of the propulsion_type list of the record names "electric".
ElectricPropulsion(device) ==
    /\ PROPULSION \in DOMAIN device
    /\ \E k \in DOMAIN device[PROPULSION] : NameHasElectric(device[PROPULSION][k])

\* C13: has_battery(device) is true if and only if the record carries a
\* battery_pct field or its propulsion_type list has a value whose name
\* includes "electric", whether or not the record has a propulsion_type
\* field.
C13_HasBatteryIff ==
    fn = "has_battery" =>
        fn_result.value =
            (BATTERY \in DOMAIN fn_args.device \/ ElectricPropulsion(fn_args.device))

\* C14: on a device without a battery_pct field, recharge_battery and
\* drain_battery raise no error and leave the record as it was.
C14_NoBatteryNoOp ==
    (fn \in {"recharge_battery", "drain_battery"}
        /\ BATTERY \notin DOMAIN fn_args.device)
    => fn_result = [value |-> fn_args.device]

\* What the call was given, or nothing.
Given(collection) == collection # {}
TheList(collection) == CHOOSE v \in collection : TRUE

\* C16, as the spec has it: the envelope has the version tag, and its data
\* holds every collection that was given, unmodified, under its own key.
C16_PayloadHoldsAllGiven ==
    fn = "make_payload" =>
        LET payload == fn_result.value
        IN  /\ payload.version = "0.2.0"
            /\ Given(fn_args.status_changes) =>
                /\ "data" \in DOMAIN payload
                /\ "status_changes" \in DOMAIN payload.data
                /\ payload.data.status_changes = TheList(fn_args.status_changes)
            /\ Given(fn_args.trips) =>
                /\ "data" \in DOMAIN payload
                /\ "trips" \in DOMAIN payload.data
                /\ payload.data.trips = TheList(fn_args.trips)

\* C16: the envelope has the version tag; given trips, with or without
\* status_changes, its data is {trips: the list}; given status_changes
\* only, its data is {status_changes: the list}; given neither, it has no
\* data member.
C16_PayloadHoldsOne ==
    fn = "make_payload" =>
        LET payload == fn_result.value
        IN  /\ payload.version = "0.2.0"
            /\ Given(fn_args.trips) =>
                payload = [version |-> "0.2.0",
                           data |-> [trips |-> TheList(fn_args.trips)]]
            /\ (Given(fn_args.status_changes) /\ ~Given(fn_args.trips)) =>
                payload = [version |-> "0.2.0",
                           data |-> [status_changes |->
                                        TheList(fn_args.status_changes)]]
            /\ (~Given(fn_args.status_changes) /\ ~Given(fn_args.trips)) =>
                payload = [version |-> "0.2.0"]

\* make_payload was called with both collections, neither of them empty.
C16_Witness ==
    /\ fn = "make_payload"
    /\ Given(fn_args.status_changes) /\ TheList(fn_args.status_changes) # <<>>
    /\ Given(fn_args.trips) /\ TheList(fn_args.trips) # <<>>
    /\ "trips" \in DOMAIN fn_result.value.data

\* C15: the battery level of every device that has one, in the roster, in
\* the active list and in the removed pool, is in [0.0, 1.0], and so is
\* the level every status change records.
C15_BatteryInRange ==
    /\ \A r \in DOMAIN objs :
        BATTERY \in DOMAIN objs[r] =>
            0 <= objs[r][BATTERY] /\ objs[r][BATTERY] <= FullBattery
    /\ \A log \in {day_status_changes, changes} :
        \A j \in DOMAIN log :
            BATTERY \in DOMAIN log[j] =>
                0 <= log[j][BATTERY] /\ log[j][BATTERY] <= FullBattery

IdentityFields == {"provider_id", "provider_name", "device_id", "vehicle_id",
                   "vehicle_type", PROPULSION}

\* C17: every trip record carries the identity fields of its device, with
\* the device's values, and has no battery_pct and no event_time field.
C17_TripFields ==
    \A log \in {trips, day_trips} :
        \A j \in DOMAIN log :
            /\ IdentityFields \subseteq DOMAIN log[j]
            /\ \A f \in IdentityFields : log[j][f] = objs[log[j].device_id][f]
            /\ BATTERY \notin DOMAIN log[j]
            /\ EVENT_TIME \notin DOMAIN log[j]

\* A device that came back from the removed pool, with a battery and an
\* event_time key, has taken a trip this hour; so has a device without a
\* battery.
C17_Witness ==
    /\ pc = "hour"
    /\ \E k \in DOMAIN active :
        /\ EVENT_TIME \in DOMAIN objs[active[k]]
        /\ BATTERY \in DOMAIN objs[active[k]]
        /\ EventsOf(trips, objs[active[k]].device_id) # <<>>
    /\ \E k \in DOMAIN active :
        /\ BATTERY \notin DOMAIN objs[active[k]]
        /\ EventsOf(trips, objs[active[k]].device_id) # <<>>

\* C18: with an empty removed pool the recharge step of service_day is
\* taken without an error, adds no event and leaves the active list, times
\* and locations as they are; and service_day on an empty roster runs to
\* its return, with an empty status-change list and an empty trip list.
C18_EmptyPools ==
    /\ []((pc = "recharge" /\ removed_devices = <<>>) => ENABLED Recharge)
    /\ [][(pc = "recharge" /\ removed_devices = <<>>) =>
            /\ pc' = "hour"
            /\ active_devices' = active_devices
            /\ times' = times
            /\ locations' = locations
            /\ removed_devices' = <<>>
            /\ day_status_changes' = day_status_changes
            /\ event_count' = event_count
            /\ objs' = objs]_vars
    /\ [](devices = <<>> =>
            /\ day_status_changes = <<>> /\ day_trips = <<>>
            /\ status_changes = <<>> /\ changes = <<>> /\ trips = <<>>
            /\ (pc # "done" \/ day < MaxDaysOf(devices)) => ENABLED Next)

\* service_day has returned for an empty roster, after more than one hour.
C18_Witness ==
    /\ pc = "done"
    /\ devices = <<>>
    /\ hour_closed > hour_open
    /\ inactivity > 0

\* C19, as the spec has it: no step of service_day changes the battery
\* level of a device sampled as inactive for the day.
C19_InactiveBatteryKept ==
    [][\A j \in DOMAIN inactive_devices :
            (pc \notin {"idle", "done"}
                /\ BATTERY \in DOMAIN objs[inactive_devices[j]])
            => objs'[inactive_devices[j]][BATTERY]
                    = objs[inactive_devices[j]][BATTERY]]_vars

\* C19: start_service recharges every device sampled as inactive that has
\* a battery, after its service_start event has recorded the level it
\* had; from then to the end of the day the level is 1.0.
C19_InactiveRecharged ==
    \A j \in DOMAIN inactive_devices :
        LET device == objs[inactive_devices[j]]
            started == \/ pc = "inactive_starts" /\ j < i
                       \/ pc \in {"inactive_ends", "active_starts", "recharge",
                                  "hour", "active_ends", "done"}
        IN  (started /\ has_battery(device)) =>
                /\ device[BATTERY] = FullBattery
                /\ pc # "inactive_starts" =>
                    \A k \in DOMAIN day_status_changes \cup DOMAIN inactive_starts :
                        LET log == IF pc = "inactive_ends" THEN inactive_starts
                                   ELSE day_status_changes
                        IN  (k \in DOMAIN log /\ log[k].device_id = device.device_id
                                /\ Reason(log[k]) = "service_end")
                            => log[k][BATTERY] = FullBattery

\* A day is over in which an inactive device started with its battery
\* below 1.0 and ended with 1.0.
C19_Witness ==
    /\ pc = "done"
    /\ \E j \in DOMAIN inactive_devices, k \in DOMAIN day_status_changes :
        /\ day_status_changes[k].device_id = objs[inactive_devices[j]].device_id
        /\ Reason(day_status_changes[k]) = "service_start"
        /\ BATTERY \in DOMAIN day_status_changes[k]
        /\ day_status_changes[k][BATTERY] < FullBattery
        /\ objs[inactive_devices[j]][BATTERY] = FullBattery

\* The last event of device d that service_day has collected.
LastEventOf(d) ==
    LET ev == EventsOf(day_status_changes, d) IN ev[Len(ev)]

\* The end of the clock hour t lies in.
NextHourBoundary(t) == ((t \div TD_HOUR) + 1) * TD_HOUR

\* C20: the recharge step of service_day puts every device it takes from
\* the removed pool at the end of the active list with battery 1.0 and
\* out of the pool; the device's maintenance_drop_off event records
\* battery 1.0, at a time not before the device's low_battery event and
\* not after the next full hour; and the time and location tracked for
\* the device are those of that event, until its next event is made.
C20_RechargedReenters ==
    /\ [][pc = "recharge" =>
            /\ Len(active_devices') >= Len(active_devices)
            /\ Len(times') = Len(active_devices')
            /\ Len(locations') = Len(active_devices')
            /\ \A k \in (Len(active_devices) + 1)..Len(active_devices') :
                LET ref == active_devices'[k]
                    d == objs[ref].device_id
                    low == LastEventOf(d)
                    ev == LET after == EventsOf(day_status_changes', d)
                          IN  after[Len(after)]
                IN  /\ ref \in Range(removed_devices)
                    /\ ref \notin Range(removed_devices')
                    /\ objs'[ref][BATTERY] = FullBattery
                    /\ Reason(low) = "low_battery"
                    /\ ev.event_type = "available"
                    /\ Reason(ev) = "maintenance_drop_off"
                    /\ ev[BATTERY] = FullBattery
                    /\ ev[EVENT_TIME] >= low[EVENT_TIME]
                    /\ ev[EVENT_TIME] <= NextHourBoundary(low[EVENT_TIME])
                    /\ times'[k] = ev[EVENT_TIME]
                    /\ locations'[k] = ev[EVENT_LOC]
                    /\ event_count'[d]["maintenance_drop_off"]
                            = event_count[d]["maintenance_drop_off"] + 1]_vars
    /\ [](pc = "hour" =>
            \A k \in DOMAIN active_devices :
                LET d == objs[active_devices[k]].device_id
                IN  (k >= device_idx
                        /\ Reason(LastEventOf(d)) = "maintenance_drop_off")
                    => /\ times[k] = LastEventOf(d)[EVENT_TIME]
                       /\ locations[k] = LastEventOf(d)[EVENT_LOC])

\* A recharged device has gone on to take a trip, picked up where its
\* maintenance_drop_off left it.
C20_Witness ==
    \E d \in DeviceIds :
        LET ev == EventsOf(day_status_changes, d)
        IN  /\ Len(ev) = 3
            /\ Reason(ev[1]) = "maintenance_drop_off"
            /\ Reason(ev[2]) = "user_pick_up"
            /\ Coordinates(ev[2]) = Coordinates(ev[1])
            /\ ev[2][EVENT_TIME] >= ev[1][EVENT_TIME]

\* The position in active_devices of the device with device_id d, 0 when
\* it is not there.
PositionOf(d) ==
    LET at == {k \in DOMAIN active_devices : objs[active_devices[k]].device_id = d}
    IN  IF at = {} THEN 0 ELSE Min(at)

\* C21: a trip made while service_hour works on hour h starts within
\* hour h, at or after h o'clock and before h + 1 o'clock, and the time
\* and location tracked for the device become those of the trip's end.
C21_TripWithinHour ==
    pc = "hour" =>
        \A j \in DOMAIN trips :
            LET trip == trips[j]
                k == PositionOf(trip.device_id)
            IN  /\ trip.start_time >= hour * TD_HOUR
                /\ trip.start_time < (hour + 1) * TD_HOUR
                /\ k > 0
                /\ times[k] = trip.end_time
                /\ locations[k] = trip.route[2]

\* C22: when the hour loop is over, every device still active gets
\* exactly one service_end event ("removed"), at a time from the closing
\* hour to two hours after it, at the coordinates of the location tracked
\* for it last: those of its last drop-off, maintenance_drop_off or
\* service_start.
C22_ActiveServiceEnd ==
    pc = "done" =>
        \A k \in DOMAIN active_devices :
            LET d == objs[active_devices[k]].device_id
                ev == EventsOf(day_status_changes, d)
                last == ev[Len(ev)]
                before == ev[Len(ev) - 1]
            IN  /\ Len(ev) >= 2
                /\ last.event_type = "removed"
                /\ Reason(last) = "service_end"
                /\ event_count[d]["service_end"] = 1
                /\ last[EVENT_TIME] >= end_time
                /\ last[EVENT_TIME] <= end_time + EndOffset
                /\ Coordinates(last) = extract_point(locations[k])
                /\ Reason(before) \in {"user_drop_off", "maintenance_drop_off",
                                       "service_start"}
                /\ Coordinates(last) = Coordinates(before)

\* A device ends the day active where it was put back after a recharge,
\* away from the place where its battery had run low.
C22_Witness ==
    /\ pc = "done"
    /\ \E k \in DOMAIN active_devices :
        LET ev == EventsOf(day_status_changes, objs[active_devices[k]].device_id)
        IN  /\ Len(ev) = 3
            /\ Reason(ev[1]) = "low_battery"
            /\ Reason(ev[2]) = "maintenance_drop_off"
            /\ Reason(ev[3]) = "service_end"
            /\ Coordinates(ev[3]) = Coordinates(ev[2])
            /\ Coordinates(ev[2]) # Coordinates(ev[1])

\* C23: every available:service_start event of start_service has an
\* event_time in the two hours before opening, open - 2 h <= t <= open.
C23_ServiceStartBeforeOpen ==
    \A e \in Range(inactive_starts) \cup Range(status_changes)
                \cup Range(day_status_changes) :
        Reason(e) = "service_start"
            => /\ e.event_type = "available"
               /\ e[EVENT_TIME] >= start_time + StartOffset
               /\ e[EVENT_TIME] <= start_time

\* The distance in metres between two points of the line.
Distance(p, q) == (IF p >= q THEN p - q ELSE q - p) * CellSize

\* C24: point_nearby called with a boundary that contains the origin
\* always returns. It makes at most 50 attempts at the distance given
\* when the bearing is random and exactly 1 when it is fixed; every
\* attempt after those is at the last distance multiplied by 0.9. The
\* point returned is at most the distance given away from the origin,
\* and exactly that far when one of the first attempts found it.
C24_NearbyTerminates ==
    /\ [](pn_tries <= (IF pn_bearing = None THEN MAX_TRIES ELSE 1))
    /\ [][pn_pc = "for" => pn_dist' = pn_dist]_vars
    /\ [][(pn_pc = "while" /\ pn_pc' = "while") =>
            /\ pn_tries = (IF pn_bearing = None THEN MAX_TRIES ELSE 1)
            /\ pn_dist' = (pn_dist * 9) \div 10
            /\ \A p \in pn_end_point' : Distance(p, pn_point) <= pn_dist']_vars
    /\ [][pn_dist' <= pn_dist]_vars
    /\ [](pn_pc = "returned" =>
            \A p \in pn_end_point : Distance(p, pn_point) <= pn_dist)
    /\ [][(pn_pc = "for" /\ pn_pc' = "returned") =>
            \A p \in pn_end_point' :
                Distance(p, pn_point) = (pn_dist \div CellSize) * CellSize]_vars
    /\ (pn_pc = "for" /\ pn_point \in pn_boundary) ~> (pn_pc = "returned")

\* From an origin inside the boundary, the 50 tries of a random bearing
\* all fell outside and the shrinking loop found a point inside that is
\* not the origin.
C24_Witness ==
    /\ pn_pc = "returned"
    /\ pn_point \in pn_boundary
    /\ pn_bearing = None
    /\ pn_tries = MAX_TRIES
    /\ pn_dist \notin GeoDistances
    /\ pn_end_point # {pn_point}

\* The whole minutes of a duration beyond the first minute.
MinutesBeyondFirst(trip_duration) == Max({0, (trip_duration \div 60) - 1})

\* C25: a trip's standard_cost is the base fee 100 plus 15 for each whole
\* minute of the trip beyond the first and never below 100, also for a
\* trip shorter than a minute; an actual_cost is never below the start
\* fee drawn for it.
C25_CostAtLeastBase ==
    fn = "device_trip" =>
        LET trip == fn_result.value.trip
            draw == fn_args.draw
        IN  /\ "standard_cost" \in DOMAIN trip =>
                /\ trip.standard_cost = 100 + 15 * MinutesBeyondFirst(trip.trip_duration)
                /\ trip.standard_cost >= 100
            /\ "actual_cost" \in DOMAIN trip => trip.actual_cost >= draw.start

\* C26: the route of every trip is a pair of two point features; the
\* first has the coordinates of the trip's pick-up event and the trip's
\* start_time as its timestamp, the second has the coordinates of the
\* drop-off event and the trip's end_time as its timestamp, also when
\* the trip starts from the location carried over from the device's
\* previous event.
C26_RouteTimestamps ==
    /\ \A trip \in Range(trips) \cup Range(day_trips) :
        /\ Len(trip.route) = 2
        /\ trip.route[1].timestamp = trip.start_time
        /\ trip.route[2].timestamp = trip.end_time
    /\ \A trip \in Range(trips) :
        /\ \E e \in Range(changes) :
            /\ Reason(e) = "user_pick_up" /\ e.device_id = trip.device_id
            /\ e[EVENT_TIME] = trip.start_time
            /\ Coordinates(e) = trip.route[1].coordinates
        /\ \E e \in Range(changes) :
            /\ Reason(e) = "user_drop_off" /\ e.device_id = trip.device_id
            /\ e[EVENT_TIME] = trip.end_time
            /\ Coordinates(e) = trip.route[2].coordinates

\* The reasons of the events of device d that service_day has collected.
ReasonsOf(d) ==
    LET ev == EventsOf(day_status_changes, d) IN [j \in DOMAIN ev |-> Reason(ev[j])]

\* C27: within a service_day, each maintenance_drop_off event of a device
\* comes right after a low_battery event of that device, and the event
\* after a low_battery event, if there is one, is the device's
\* maintenance_drop_off, so the device takes no trip in between; a device
\* removed while an hour is processed is not in the hour's active list,
\* gets no further event in that hour and is recharged at the top of a
\* later hour at the earliest, never after the closing hour.
C27_RemovalThenRecharge ==
    /\ [](\A d \in DeviceIds :
            LET rs == ReasonsOf(d)
            IN  /\ \A j \in 2..Len(rs) :
                    /\ rs[j] = "maintenance_drop_off" => rs[j - 1] = "low_battery"
                    /\ rs[j - 1] = "low_battery" => rs[j] = "maintenance_drop_off"
                /\ event_count[d]["maintenance_drop_off"]
                        <= event_count[d]["low_battery"]
                /\ event_count[d]["low_battery"]
                        <= event_count[d]["maintenance_drop_off"] + 1)
    /\ [](pc = "hour" =>
            \A r \in Range(removed) :
                LET d == objs[r].device_id
                    mine == EventsOf(changes, d)
                IN  /\ \A a \in Range(active) : objs[a].device_id # d
                    /\ Len(mine) > 0
                    /\ Reason(mine[Len(mine)]) = "low_battery"
                    /\ r \notin Range(removed_devices))
    /\ [][(pc = "hour" \/ pc = "active_ends") =>
            \A d \in DeviceIds :
                (event_count'[d]["maintenance_drop_off"]
                    = event_count[d]["maintenance_drop_off"])]_vars
    /\ [](pc \in {"active_ends", "done"} =>
            \A r \in Range(removed_devices) :
                LET rs == ReasonsOf(objs[r].device_id)
                IN  rs[Len(rs)] = "low_battery")

\* Two devices ran low in the same hour; one was recharged in the next
\* hour, took a trip and ended the day in service, the other stayed in
\* the removed pool to the end of the day.
C27_Witness ==
    /\ pc = "done"
    /\ \E d1, d2 \in DeviceIds :
        /\ event_count[d1]["low_battery"] = 1
        /\ event_count[d1]["maintenance_drop_off"] = 1
        /\ ReasonsOf(d1) = <<"user_pick_up", "user_drop_off", "service_end">>
        /\ event_count[d2]["low_battery"] = 1
        /\ event_count[d2]["maintenance_drop_off"] = 0
        /\ ReasonsOf(d2)[Len(ReasonsOf(d2))] = "low_battery"

\* The device_ids of a list of devices, in the order of the list.
IdsOf(list) == [k \in DOMAIN list |-> objs[list[k]].device_id]

\* C28: before and after every iteration of the hour loop of service_day,
\* each device that was not sampled as inactive is, by device_id, in
\* exactly one of active_devices and removed_devices, no device_id occurs
\* twice in either list, no other device is in them, and active_devices,
\* times and locations have the same length.
C28_ActiveOrRemoved ==
    pc \in {"recharge", "active_ends", "done"} =>
        LET act == IdsOf(active_devices)
            pool == IdsOf(removed_devices)
        IN  /\ \A d \in DeviceIds \ InactiveIds :
                (d \in Range(act)) # (d \in Range(pool))
            /\ Range(act) \cup Range(pool) \subseteq DeviceIds \ InactiveIds
            /\ Cardinality(Range(act)) = Len(act)
            /\ Cardinality(Range(pool)) = Len(pool)
            /\ Len(times) = Len(active_devices)
            /\ Len(locations) = Len(active_devices)

\* The hour loop is over with one device back in the active list after a
\* recharge and another left in the removed pool.
C28_Witness ==
    /\ pc = "active_ends"
    /\ Len(removed_devices) = 1
    /\ \E k \in DOMAIN active_devices :
        /\ EVENT_TIME \in DOMAIN objs[active_devices[k]]
        /\ event_count[objs[active_devices[k]].device_id]["maintenance_drop_off"] = 1

\* C29: the event_location of every status change service_day makes and
\* both route points of every trip lie inside the boundary, whatever the
\* hours, trips, removals and recharges before.
C29_InsideBoundary ==
    /\ \A e \in Range(inactive_starts) \cup Range(status_changes)
                    \cup Range(changes) \cup Range(day_status_changes) :
            Coordinates(e) \in Boundary
    /\ \A trip \in Range(trips) \cup Range(day_trips) :
            \A j \in DOMAIN trip.route :
                trip.route[j].coordinates \in Boundary
    /\ \A k \in DOMAIN locations : locations[k].coordinates \in Boundary

\* A day is over in which a device took a trip to another place, ran
\* low, and was put back at a place other than the one where it ran low.
C29_Witness ==
    /\ pc = "done"
    /\ \E d \in DeviceIds :
        /\ event_count[d]["maintenance_drop_off"] = 1
        /\ \E trip \in Range(day_trips) :
            /\ trip.device_id = d
            /\ trip.route[1].coordinates # trip.route[2].coordinates

\* C30: the battery_pct of an event is the device's level at that event:
\* every service_start and every maintenance_drop_off event of a device
\* with a battery records 1.0, on the first day and on every later day
\* of the roster, every low_battery event records less than 0.2, and a
\* drop-off records no more than the pick-up of its trip.
C30_RecordedBattery ==
    /\ \A e \in Range(inactive_starts) \cup Range(status_changes)
                    \cup Range(changes) \cup Range(day_status_changes) :
            BATTERY \in DOMAIN e =>
                /\ Reason(e) \in {"service_start", "maintenance_drop_off"}
                        => e[BATTERY] = FullBattery
                /\ Reason(e) = "low_battery" => e[BATTERY] < LowBattery
    /\ \A d \in DeviceIds :
        \A log \in {EventsOf(changes, d), EventsOf(day_status_changes, d)} :
            \A j \in 2..Len(log) :
                (/\ Reason(log[j]) = "user_drop_off"
                 /\ Reason(log[j - 1]) = "user_pick_up"
                 /\ BATTERY \in DOMAIN log[j])
                    => log[j][BATTERY] <= log[j - 1][BATTERY]

====
